---------------------------- MODULE Spec2Model ----------------------------
(***************************************************************************)
(* Model of package server (src/server.go): the functional options and     *)
(* New, which folds them into an options record and configures a           *)
(* tcpserver.Server, and the lifecycle calls Start, AwaitStopSignal and    *)
(* the promoted Shutdown.                                                   *)
(*                                                                         *)
(* A *T field of the options struct is a record [set, ...]: set = FALSE is *)
(* the nil pointer, set = TRUE carries the pointed-to value.               *)
(* An error is a string, "" is the nil error.                              *)
(***************************************************************************)
EXTENDS Integers, Sequences, FiniteSets, TLC

\* Bounds of the model.
MaxOpts == 3
MaxStarts == 2
MaxSignals == 3
MaxShutdowns == 1

\* Program constants.
ChanCap == 1
MaxPort == 65535

VARIABLES
    opts,        \* New: the caller's option sequence (opts ...Option)
    idx,         \* New: position of the range loop over opts, 1-based
    opt,         \* New: var opt options, the draft the options mutate
    applied,     \* New: indices of the options that have been invoked
    newPc,       \* New: "loop" | "done"
    newErr,      \* New: the returned error ("" = nil)
    srv,         \* New: the returned *Server (made = FALSE is nil) with the engine's settings
    startPc,     \* Start call k: "idle" | "go" | "done"
    startRet,    \* Start call k: "none" | "nil" | "err" (the wrapped Listen error)
    servePc,     \* goroutine of Start call k: "none" | "ready" | "serving" | "returned"
    binds,       \* number of Listen calls that bound a socket
    state,       \* lifecycle state (Unstarted .. Stopped): the code stores none, it is
                 \* moved here by the engine calls the code makes
    chan,        \* AwaitStopSignal: the buffered channel c
    notify,      \* AwaitStopSignal: signal.Notify(c, ...) is in force
    awaitPc,     \* AwaitStopSignal: "idle" | "wait" | "call" | "shutdown" | "done"
    sig,         \* AwaitStopSignal: the received signal ("" before the receive)
    awaitRet,    \* AwaitStopSignal: the returned pair
    sdPc,        \* Shutdown call j: "idle" | "running" | "done" (j = 0 is AwaitStopSignal's)
    sdRet,       \* Shutdown call j: the error the engine returned
    sdCalls,     \* Shutdown call site j: how often it has called Shutdown
    sent,        \* how many signals the process has been sent
    firstSig     \* the first registered signal the process was sent ("" before it)

vars == <<opts, idx, opt, applied, newPc, newErr, srv, startPc, startRet, servePc,
          binds, state, chan, notify, awaitPc, sig, awaitRet, sdPc, sdRet, sdCalls,
          sent, firstSig>>

newVars == <<opts, idx, opt, applied, newPc, newErr, srv>>

lifeVars == <<startPc, startRet, servePc, binds, state, chan, notify, awaitPc, sig,
              awaitRet, sdPc, sdRet, sdCalls, sent, firstSig>>

---------------------------------------------------------------------------
\* Errors of the options and of New.
ErrPort == "port cannot be less than zero"
ErrQueueLen == "queue length cannot be less than zero"
ErrBallast == "ballast cannot be less than or equal to zero"
ErrHost == "invalid IP address"
ErrAddress == "validate tcp server address"
ErrNewServer == "creates a new server instance"

\* var default_host, set by init() to 127.0.0.1
default_host == "127.0.0.1"

\* net.IP.UnmarshalText on the host texts of the model: the IP, printed as
\* net.IP.String prints it, or a failure.
ParseIP(text) ==
    CASE text = "10.0.0.1" -> [ok |-> TRUE, ip |-> "10.0.0.1"]
      [] text = "127.0.0.1" -> [ok |-> TRUE, ip |-> "127.0.0.1"]
      [] text = "0:0:0:0:0:0:0:1" -> [ok |-> TRUE, ip |-> "::1"]
      [] OTHER -> [ok |-> FALSE, ip |-> ""]

\* Whether the printed IP holds a colon (an IPv6 literal).
HasColon(ip) == ip \in {"::1"}

NilStr == [set |-> FALSE, s |-> ""]
NilInt == [set |-> FALSE, n |-> 0]
NilBool == [set |-> FALSE, b |-> FALSE]
PtrStr(v) == [set |-> TRUE, s |-> v]
PtrInt(v) == [set |-> TRUE, n |-> v]
PtrBool(v) == [set |-> TRUE, b |-> v]

\* var opt options: every pointer nil, handler nil
ZeroOptions ==
    [host |-> NilStr, port |-> NilInt, socketReusePort |-> NilBool,
     socketFastOpen |-> NilBool, socketFastOpenQueueLen |-> NilInt,
     socketDeferAccept |-> NilBool, loops |-> NilInt, workerpoolShards |-> NilInt,
     allowThreadLocking |-> NilBool, ballast |-> NilInt, handler |-> NilStr]

\* An Option value: the constructor that made the closure and its argument.
Mk(kind, s, n, b) == [kind |-> kind, s |-> s, n |-> n, b |-> b]

HostTexts == {"localhost", "10.0.0.1", "0:0:0:0:0:0:0:1", "bad"}
PortValues == {-1, 0, 8080, 70000}
QueueLenValues == {-1, 5}
BallastValues == {0, 64}

Options ==
    {Mk("WithHost", h, 0, FALSE) : h \in HostTexts}
    \cup {Mk("WithPort", "", p, FALSE) : p \in PortValues}
    \cup {Mk("WithSocketReusePort", "", 0, b) : b \in BOOLEAN}
    \cup {Mk("WithSocketFastOpen", "", 0, TRUE)}
    \cup {Mk("WithSocketFastOpenQueueLen", "", q, FALSE) : q \in QueueLenValues}
    \cup {Mk("WithSocketDeferAccept", "", 0, b) : b \in BOOLEAN}
    \cup {Mk("WithLoops", "", 8, FALSE)}
    \cup {Mk("WithWorkerpoolShards", "", 16, FALSE)}
    \cup {Mk("WithAllowThreadLocking", "", 0, TRUE)}
    \cup {Mk("WithBallast", "", m, FALSE) : m \in BallastValues}
    \cup {Mk("WithRequestHandler", "h1", 0, FALSE)}

\* The result of invoking an option closure on a draft: the error and the draft after it.
Res(e, o) == [err |-> e, opt |-> o]

WithHost(host, o) ==
    IF host = "" \/ host = "localhost"
    THEN Res("", [o EXCEPT !.host = PtrStr(default_host)])
    ELSE IF ParseIP(host).ok
         THEN Res("", [o EXCEPT !.host = PtrStr(ParseIP(host).ip)])
         ELSE Res(ErrHost, o)

WithPortEager(port, o) ==
    IF port < 0 THEN Res(ErrPort, [o EXCEPT !.port = PtrInt(port)])
    ELSE Res("", [o EXCEPT !.port = PtrInt(port)])

WithPortFirstWins(port, o) ==
    IF port < 0 THEN Res(ErrPort, o)
    ELSE IF o.port.set THEN Res("", o)
    ELSE Res("", [o EXCEPT !.port = PtrInt(port)])

WithPort(port, o) ==
    IF port < 0 THEN Res(ErrPort, o)
    ELSE Res("", [o EXCEPT !.port = PtrInt(port)])

WithSocketReusePort(enable, o) == Res("", [o EXCEPT !.socketReusePort = PtrBool(enable)])

WithSocketFastOpen(enable, o) == Res("", [o EXCEPT !.socketFastOpen = PtrBool(enable)])

WithSocketFastOpenQueueLen(len, o) ==
    IF len < 0 THEN Res(ErrQueueLen, o)
    ELSE Res("", [o EXCEPT !.socketFastOpenQueueLen = PtrInt(len)])

WithSocketDeferAccept(enable, o) == Res("", [o EXCEPT !.socketDeferAccept = PtrBool(enable)])

WithLoops(loops, o) == Res("", [o EXCEPT !.loops = PtrInt(loops)])

WithWorkerpoolShards(shards, o) == Res("", [o EXCEPT !.workerpoolShards = PtrInt(shards)])

WithAllowThreadLocking(enable, o) == Res("", [o EXCEPT !.allowThreadLocking = PtrBool(enable)])

WithBallast(sizeInMiB, o) ==
    IF sizeInMiB <= 0 THEN Res(ErrBallast, o)
    ELSE Res("", [o EXCEPT !.ballast = PtrInt(sizeInMiB)])

WithRequestHandler(f, o) == Res("", [o EXCEPT !.handler = PtrStr(f)])

\* option(&opt): the closure the constructor returned, invoked on the draft.
Invoke(op, o) ==
    CASE op.kind = "WithHost" -> WithHost(op.s, o)
      [] op.kind = "WithPort" -> WithPort(op.n, o)
      [] op.kind = "WithSocketReusePort" -> WithSocketReusePort(op.b, o)
      [] op.kind = "WithSocketFastOpen" -> WithSocketFastOpen(op.b, o)
      [] op.kind = "WithSocketFastOpenQueueLen" -> WithSocketFastOpenQueueLen(op.n, o)
      [] op.kind = "WithSocketDeferAccept" -> WithSocketDeferAccept(op.b, o)
      [] op.kind = "WithLoops" -> WithLoops(op.n, o)
      [] op.kind = "WithWorkerpoolShards" -> WithWorkerpoolShards(op.n, o)
      [] op.kind = "WithAllowThreadLocking" -> WithAllowThreadLocking(op.b, o)
      [] op.kind = "WithBallast" -> WithBallast(op.n, o)
      [] OTHER -> WithRequestHandler(op.s, o)


---------------------------------------------------------------------------
\* The engine (tcpserver.Server) as New leaves it: what each setter was handed.
\* A setter New did not call leaves a nil entry: the engine keeps its default.

\* new(tcpserver.ListenConfig): the zero value of the struct.
ZeroListenConfig ==
    [SocketReusePort |-> FALSE, SocketFastOpen |-> FALSE,
     SocketFastOpenQueueLen |-> 0, SocketDeferAccept |-> FALSE]

\* The nil *Server: no engine, no setter called.
NilServer ==
    [made |-> FALSE, host |-> "", port |-> 0,
     listenConfigSet |-> FALSE, listenConfig |-> ZeroListenConfig,
     loops |-> NilInt, workerpoolShards |-> NilInt,
     allowThreadLocking |-> NilBool, ballast |-> NilInt, handler |-> NilStr]

\* tcpserver.NewServer(address): an engine no setter has touched.
NewServer(host, port) == [NilServer EXCEPT !.made = TRUE, !.host = host, !.port = port]

\* net.ResolveTCPAddr("tcp", fmt.Sprintf("%s:%d", *host, port)): the text splits
\* at its last colon, the host part may hold no colon of its own (an IPv6
\* literal is not bracketed by the format), the port is a number of 16 bits.
ResolveTCPAddr(host, port) == ~HasColon(host) /\ port >= 0 /\ port <= MaxPort

\* cfg := new(tcpserver.ListenConfig) and the three guarded copies into it.
ListenConfig(o) ==
    [ZeroListenConfig EXCEPT
        !.SocketReusePort = IF o.socketReusePort.set THEN o.socketReusePort.b ELSE @,
        !.SocketFastOpen = IF o.socketFastOpen.set THEN o.socketFastOpen.b ELSE @,
        !.SocketFastOpenQueueLen =
            IF o.socketFastOpenQueueLen.set THEN o.socketFastOpenQueueLen.n ELSE @]

\* The guarded setter calls on srv and the closing srv.SetListenConfig(cfg).
Configure(s, o) ==
    [s EXCEPT
        !.loops = IF o.loops.set THEN PtrInt(o.loops.n) ELSE @,
        !.workerpoolShards =
            IF o.workerpoolShards.set THEN PtrInt(o.workerpoolShards.n) ELSE @,
        !.allowThreadLocking =
            IF o.allowThreadLocking.set THEN PtrBool(o.allowThreadLocking.b) ELSE @,
        !.ballast = IF o.ballast.set THEN PtrInt(o.ballast.n) ELSE @,
        !.handler = IF o.handler.set THEN PtrStr(o.handler.s) ELSE @,
        !.listenConfigSet = TRUE,
        !.listenConfig = ListenConfig(o)]

\* host and port as New resolves them from the draft.
HostOf(o) == IF o.host.set THEN o.host.s ELSE default_host
PortOf(o) == IF o.port.set THEN o.port.n ELSE 0

---------------------------------------------------------------------------
\* New(opts ...Option)

OptionSeqs == UNION {[1..n -> Options] : n \in 0..MaxOpts}

LifeIdle ==
    /\ startPc = [k \in 1..MaxStarts |-> "idle"]
    /\ startRet = [k \in 1..MaxStarts |-> "none"]
    /\ servePc = [k \in 1..MaxStarts |-> "none"]
    /\ binds = 0
    /\ state = "Unstarted"
    /\ chan = <<>>
    /\ notify = FALSE
    /\ awaitPc = "idle"
    /\ sig = ""
    /\ awaitRet = [sig |-> "", err |-> ""]
    /\ sdPc = [j \in 0..MaxShutdowns |-> "idle"]
    /\ sdRet = [j \in 0..MaxShutdowns |-> ""]
    /\ sdCalls = [j \in 0..MaxShutdowns |-> 0]
    /\ sent = 0
    /\ firstSig = ""

InitNew ==
    /\ opts \in OptionSeqs
    /\ idx = 1
    /\ opt = ZeroOptions
    /\ applied = {}
    /\ newPc = "loop"
    /\ newErr = ""
    /\ srv = NilServer
    /\ LifeIdle

\* One turn of the loop that keeps going after a failing option.
ApplyOptionContinue ==
    /\ newPc = "loop"
    /\ idx <= Len(opts)
    /\ LET r == Invoke(opts[idx], opt) IN
        /\ applied' = applied \cup {idx}
        /\ opt' = r.opt
        /\ newErr' = IF r.err # "" THEN r.err ELSE newErr
        /\ idx' = idx + 1
        /\ newPc' = IF idx = Len(opts) /\ newErr' # "" THEN "done" ELSE "loop"
    /\ UNCHANGED <<opts, srv>>
    /\ UNCHANGED lifeVars

\* One turn of "for _, option := range opts": the option is invoked on the
\* draft, and its error ends New.
ApplyOption ==
    /\ newPc = "loop"
    /\ idx <= Len(opts)
    /\ LET r == Invoke(opts[idx], opt) IN
        /\ applied' = applied \cup {idx}
        /\ opt' = r.opt
        /\ IF r.err # ""
           THEN /\ newErr' = r.err
                /\ newPc' = "done"
                /\ idx' = idx
           ELSE /\ newErr' = newErr
                /\ newPc' = "loop"
                /\ idx' = idx + 1
    /\ UNCHANGED <<opts, srv>>
    /\ UNCHANGED lifeVars

\* New after the loop: the address is validated, the engine created and
\* configured. created is what tcpserver.NewServer answers.
Build ==
    /\ newPc = "loop"
    /\ idx > Len(opts)
    /\ \E created \in BOOLEAN :
        /\ newPc' = "done"
        /\ IF ~ResolveTCPAddr(HostOf(opt), PortOf(opt))
           THEN /\ newErr' = ErrAddress
                /\ srv' = NilServer
           ELSE IF ~created
                THEN /\ newErr' = ErrNewServer
                     /\ srv' = NilServer
                ELSE /\ newErr' = ""
                     /\ srv' = Configure(NewServer(HostOf(opt), PortOf(opt)), opt)
    /\ UNCHANGED <<opts, idx, opt, applied>>
    /\ UNCHANGED lifeVars

NextNew == ApplyOption \/ Build

SpecNew == InitNew /\ [][NextNew]_vars

---------------------------------------------------------------------------
\* Properties of New.

\* The option fails by its own check, whatever the draft.
Fails(op) == Invoke(op, ZeroOptions).err # ""

FailIdx(os) == {i \in 1..Len(os) : Fails(os[i])}

FirstFail(os) == CHOOSE i \in FailIdx(os) : \A j \in FailIdx(os) : i <= j

\* C1: when some option of the sequence fails, New invokes the options up to
\* the first failing one and none after it, returns that option's error, and
\* returns the nil server.
C1_FirstErrorAborts ==
    FailIdx(opts) # {} =>
        /\ applied \subseteq 1..FirstFail(opts)
        /\ ~srv.made
        /\ newPc = "done" =>
            /\ applied = 1..FirstFail(opts)
            /\ newErr = Invoke(opts[FirstFail(opts)], ZeroOptions).err

\* New has returned on a sequence with two failing options of different errors,
\* the first of them behind a valid option.
C1_Witness ==
    /\ newPc = "done"
    /\ Len(opts) = 3
    /\ FailIdx(opts) = {2, 3}
    /\ Invoke(opts[2], ZeroOptions).err # Invoke(opts[3], ZeroOptions).err
    /\ newErr # ""

\* The field of the options struct a constructor's closure assigns.
FieldOf(kind) ==
    CASE kind = "WithHost" -> "host"
      [] kind = "WithPort" -> "port"
      [] kind = "WithSocketReusePort" -> "socketReusePort"
      [] kind = "WithSocketFastOpen" -> "socketFastOpen"
      [] kind = "WithSocketFastOpenQueueLen" -> "socketFastOpenQueueLen"
      [] kind = "WithSocketDeferAccept" -> "socketDeferAccept"
      [] kind = "WithLoops" -> "loops"
      [] kind = "WithWorkerpoolShards" -> "workerpoolShards"
      [] kind = "WithAllowThreadLocking" -> "allowThreadLocking"
      [] kind = "WithBallast" -> "ballast"
      [] OTHER -> "handler"

Writers(os, f) == {i \in 1..Len(os) : FieldOf(os[i].kind) = f}

Last(S) == CHOOSE i \in S : \A j \in S : j <= i

\* The value the last option of os that sets field f gives it, nil when none does.
LastWrite(os, f) ==
    IF Writers(os, f) = {} THEN ZeroOptions[f]
    ELSE Invoke(os[Last(Writers(os, f))], ZeroOptions).opt[f]

\* C2: once New has folded a sequence of valid options, every field of the
\* draft holds the value of the last option that sets it, and a field no
\* option sets is nil.
C2_LastWriteWins ==
    (FailIdx(opts) = {} /\ idx > Len(opts)) =>
        \A f \in DOMAIN ZeroOptions : opt[f] = LastWrite(opts, f)

\* A folded valid sequence whose first and last option set the port to
\* different values, with another field set in between.
C2_Witness ==
    /\ idx > Len(opts)
    /\ Len(opts) = 3
    /\ FailIdx(opts) = {}
    /\ opts[1].kind = "WithPort"
    /\ opts[3].kind = "WithPort"
    /\ opts[2].kind = "WithSocketReusePort"
    /\ opts[1].n # opts[3].n
    /\ opt.port = PtrInt(opts[3].n)
    /\ ~opt.ballast.set

\* The option's argument breaks the range rule of its constructor.
RangeBroken(op) ==
    \/ op.kind = "WithPort" /\ op.n < 0
    \/ op.kind = "WithSocketFastOpenQueueLen" /\ op.n < 0
    \/ op.kind = "WithBallast" /\ op.n <= 0

RangeErr(op) ==
    CASE op.kind = "WithPort" -> ErrPort
      [] op.kind = "WithSocketFastOpenQueueLen" -> ErrQueueLen
      [] OTHER -> ErrBallast

\* C3: invoking an option whose argument breaks its range rule ends New with
\* that rule's error and leaves the draft as it was before the call.
C3_RangeFailureKeepsDraft ==
    [][(newPc = "loop" /\ idx <= Len(opts) /\ RangeBroken(opts[idx])) =>
        (newPc' = "done" /\ newErr' = RangeErr(opts[idx]) /\ opt' = opt /\ ~srv'.made)]_vars

\* New has ended on a port below zero, after two options had set the port and
\* the host of the draft.
C3_Witness ==
    /\ newPc = "done"
    /\ newErr = ErrPort
    /\ idx = 3
    /\ opt.port.set
    /\ opt.host.set

\* C9: every tuning field the caller set reaches the engine with the caller's
\* value (the setter fields through their setters, the socket flags through
\* the listen configuration), and a setter of an unset field is not called.
C9_TuningReachesEngine ==
    (newPc = "done" /\ srv.made) =>
        /\ srv.loops = opt.loops
        /\ srv.workerpoolShards = opt.workerpoolShards
        /\ srv.allowThreadLocking = opt.allowThreadLocking
        /\ srv.ballast = opt.ballast
        /\ srv.listenConfigSet
        /\ opt.socketReusePort.set =>
            srv.listenConfig.SocketReusePort = opt.socketReusePort.b
        /\ opt.socketFastOpen.set =>
            srv.listenConfig.SocketFastOpen = opt.socketFastOpen.b
        /\ opt.socketFastOpenQueueLen.set =>
            srv.listenConfig.SocketFastOpenQueueLen = opt.socketFastOpenQueueLen.n
        /\ opt.socketDeferAccept.set =>
            srv.listenConfig.SocketDeferAccept = opt.socketDeferAccept.b

---------------------------------------------------------------------------
\* The lifecycle of a constructed server: Start, the goroutine it launches,
\* AwaitStopSignal and Shutdown, the engine's method the embedding promotes.
\* What the engine answers (whether Listen binds, which error Shutdown
\* returns, when Serve returns) is an input of the step that calls it.

\* The loop of New as a whole, for the servers the lifecycle starts from.
RECURSIVE Fold(_, _)
Fold(os, o) ==
    IF os = <<>> THEN Res("", o)
    ELSE LET r == Invoke(Head(os), o) IN
         IF r.err # "" THEN r ELSE Fold(Tail(os), r.opt)

LifeConfigs ==
    {<<Mk("WithPort", "", 0, FALSE), Mk("WithHost", "localhost", 0, FALSE)>>}

InitLife ==
    /\ opts \in LifeConfigs
    /\ idx = Len(opts) + 1
    /\ opt = Fold(opts, ZeroOptions).opt
    /\ applied = 1..Len(opts)
    /\ newPc = "done"
    /\ newErr = ""
    /\ srv = Configure(NewServer(HostOf(opt), PortOf(opt)), opt)
    /\ LifeIdle

\* The signals AwaitStopSignal hands to signal.Notify (os.Interrupt is SIGINT).
Registered == {"SIGINT", "SIGTERM", "SIGHUP", "SIGQUIT", "SIGABRT"}

\* The signals the model sends: two registered ones and one that is not.
Signals == {"SIGINT", "SIGTERM", "SIGUSR1"}

ErrShutdown == "shutdown: drain deadline exceeded"

Rank(st) ==
    CASE st = "Unstarted" -> 0
      [] st = "Listening" -> 1
      [] st = "Serving" -> 2
      [] st = "ShuttingDown" -> 3
      [] OTHER -> 4

\* Start that launches the goroutine whatever Listen answered.
StartListenIgnoreErr(k) ==
    /\ startPc[k] = "idle"
    /\ \E ok \in BOOLEAN :
        /\ binds' = IF ok THEN binds + 1 ELSE binds
        /\ state' = IF ok THEN "Listening" ELSE state
        /\ startPc' = [startPc EXCEPT ![k] = "go"]
        /\ startRet' = startRet
    /\ UNCHANGED <<servePc, chan, notify, awaitPc, sig, awaitRet, sdPc, sdRet, sdCalls,
                   sent, firstSig>>
    /\ UNCHANGED newVars

\* Start, its first statement: s.Listen(), whose error is wrapped and returned.
StartListen(k) ==
    /\ startPc[k] = "idle"
    /\ \E ok \in BOOLEAN :
        IF ok
        THEN /\ binds' = binds + 1
             /\ state' = "Listening"
             /\ startPc' = [startPc EXCEPT ![k] = "go"]
             /\ startRet' = startRet
        ELSE /\ binds' = binds
             /\ state' = state
             /\ startPc' = [startPc EXCEPT ![k] = "done"]
             /\ startRet' = [startRet EXCEPT ![k] = "err"]
    /\ UNCHANGED <<servePc, chan, notify, awaitPc, sig, awaitRet, sdPc, sdRet, sdCalls,
                   sent, firstSig>>
    /\ UNCHANGED newVars

\* Start after a Listen that bound: go func() { s.Serve() }(); return nil.
\* The goroutine is launched and Start returns, without a wait in between.
StartGo(k) ==
    /\ startPc[k] = "go"
    /\ servePc' = [servePc EXCEPT ![k] = "ready"]
    /\ startPc' = [startPc EXCEPT ![k] = "done"]
    /\ startRet' = [startRet EXCEPT ![k] = "nil"]
    /\ UNCHANGED <<binds, state, chan, notify, awaitPc, sig, awaitRet, sdPc, sdRet,
                   sdCalls, sent, firstSig>>
    /\ UNCHANGED newVars

\* The goroutine is scheduled and calls s.Serve().
ServeBegin(k) ==
    /\ servePc[k] = "ready"
    /\ servePc' = [servePc EXCEPT ![k] = "serving"]
    /\ state' = "Serving"
    /\ UNCHANGED <<startPc, startRet, binds, chan, notify, awaitPc, sig, awaitRet, sdPc,
                   sdRet, sdCalls, sent, firstSig>>
    /\ UNCHANGED newVars

\* s.Serve() returns and the goroutine ends.
ServeEnd(k) ==
    /\ servePc[k] = "serving"
    /\ servePc' = [servePc EXCEPT ![k] = "returned"]
    /\ UNCHANGED <<startPc, startRet, binds, state, chan, notify, awaitPc, sig, awaitRet,
                   sdPc, sdRet, sdCalls, sent, firstSig>>
    /\ UNCHANGED newVars

\* AwaitStopSignal: c := make(chan os.Signal, 1); signal.Notify(c, ...)
AwaitNotify ==
    /\ awaitPc = "idle"
    /\ awaitPc' = "wait"
    /\ chan' = <<>>
    /\ notify' = TRUE
    /\ UNCHANGED <<startPc, startRet, servePc, binds, state, sig, awaitRet, sdPc, sdRet,
                   sdCalls, sent, firstSig>>
    /\ UNCHANGED newVars

\* A delivery that replaces the buffered signal when the channel is full.
SignalOverwrite(s) ==
    /\ sent < MaxSignals
    /\ s \in Registered => notify
    /\ sent' = sent + 1
    /\ firstSig' = IF firstSig = "" /\ s \in Registered THEN s ELSE firstSig
    /\ chan' = IF notify /\ s \in Registered
               THEN IF Len(chan) < ChanCap THEN Append(chan, s) ELSE <<s>>
               ELSE chan
    /\ UNCHANGED <<startPc, startRet, servePc, binds, state, notify, awaitPc, sig,
                   awaitRet, sdPc, sdRet, sdCalls>>
    /\ UNCHANGED newVars

\* The process is sent signal s. Package signal sends it to c without
\* blocking: a registered signal is buffered when c has room and dropped when
\* it has not. Before Notify a registered signal ends the process, so the model
\* sends none; SIGUSR1 is never passed to c.
Signal(s) ==
    /\ sent < MaxSignals
    /\ s \in Registered => notify
    /\ sent' = sent + 1
    /\ firstSig' = IF firstSig = "" /\ s \in Registered THEN s ELSE firstSig
    /\ chan' = IF notify /\ s \in Registered /\ Len(chan) < ChanCap
               THEN Append(chan, s)
               ELSE chan
    /\ UNCHANGED <<startPc, startRet, servePc, binds, state, notify, awaitPc, sig,
                   awaitRet, sdPc, sdRet, sdCalls>>
    /\ UNCHANGED newVars

\* AwaitStopSignal: sig := <-c
AwaitReceive ==
    /\ awaitPc = "wait"
    /\ chan # <<>>
    /\ sig' = Head(chan)
    /\ chan' = Tail(chan)
    /\ awaitPc' = "call"
    /\ UNCHANGED <<startPc, startRet, servePc, binds, state, notify, awaitRet, sdPc,
                   sdRet, sdCalls, sent, firstSig>>
    /\ UNCHANGED newVars

\* s.Shutdown(timeout) is entered: by AwaitStopSignal's return statement
\* (j = 0) or by a caller of the promoted method (j > 0). A lifecycle that is
\* Listening or Serving is ShuttingDown from here on.
ShutdownBegin(j) ==
    /\ sdPc[j] = "idle"
    /\ j = 0 => awaitPc = "call"
    /\ sdPc' = [sdPc EXCEPT ![j] = "running"]
    /\ sdCalls' = [sdCalls EXCEPT ![j] = @ + 1]
    /\ state' = IF state \in {"Listening", "Serving"} THEN "ShuttingDown" ELSE state
    /\ awaitPc' = IF j = 0 THEN "shutdown" ELSE awaitPc
    /\ UNCHANGED <<startPc, startRet, servePc, binds, chan, notify, sig, awaitRet, sdRet,
                   sent, firstSig>>
    /\ UNCHANGED newVars

\* s.Shutdown(timeout) returns the engine's answer e: nil, or the error of a
\* drain that outlasted the timeout. A lifecycle that was ShuttingDown is Stopped.
ShutdownEnd(j) ==
    /\ sdPc[j] = "running"
    /\ \E e \in {"", ErrShutdown} :
        sdRet' = [sdRet EXCEPT ![j] = e]
    /\ sdPc' = [sdPc EXCEPT ![j] = "done"]
    /\ state' = IF state = "ShuttingDown" THEN "Stopped" ELSE state
    /\ UNCHANGED <<startPc, startRet, servePc, binds, chan, notify, awaitPc, sig,
                   awaitRet, sdCalls, sent, firstSig>>
    /\ UNCHANGED newVars

\* AwaitStopSignal: return sig, s.Shutdown(stopTimeout)
AwaitReturn ==
    /\ awaitPc = "shutdown"
    /\ sdPc[0] = "done"
    /\ awaitRet' = [sig |-> sig, err |-> sdRet[0]]
    /\ awaitPc' = "done"
    /\ UNCHANGED <<startPc, startRet, servePc, binds, state, chan, notify, sig, sdPc,
                   sdRet, sdCalls, sent, firstSig>>
    /\ UNCHANGED newVars

NextLife ==
    \/ \E k \in 1..MaxStarts :
        StartListen(k) \/ StartGo(k) \/ ServeBegin(k) \/ ServeEnd(k)
    \/ AwaitNotify
    \/ \E s \in Signals : Signal(s)
    \/ AwaitReceive
    \/ \E j \in 0..MaxShutdowns : ShutdownBegin(j) \/ ShutdownEnd(j)
    \/ AwaitReturn

SpecLife == InitLife /\ [][NextLife]_vars

---------------------------------------------------------------------------
\* Properties of the lifecycle.

\* C5: AwaitStopSignal calls Shutdown at most once and only after it has
\* received a signal, the signal it received is the first registered signal
\* the process was sent, and it returns that signal with the error its
\* Shutdown call returned.
C5_SingleShot ==
    /\ sdCalls[0] <= 1
    /\ sdCalls[0] = 1 => (sig \in Registered /\ sig = firstSig)
    /\ sig # "" => sig = firstSig
    /\ awaitPc = "done" =>
        /\ sdCalls[0] = 1
        /\ sdPc[0] = "done"
        /\ awaitRet = [sig |-> firstSig, err |-> sdRet[0]]

\* AwaitStopSignal has returned SIGTERM with the drain error, after three
\* signals: a later SIGINT sits unread in the channel and one more was
\* dropped or not registered.
C5_Witness ==
    /\ awaitPc = "done"
    /\ sent = 3
    /\ awaitRet = [sig |-> "SIGTERM", err |-> ErrShutdown]
    /\ chan = <<"SIGINT">>
    /\ sdCalls[0] = 1

\* C6: a Start call made after another Start call has returned nil is
\* rejected: it returns an error, binds no socket and leaves the lifecycle
\* state as it is.
C6_SecondStartRejected ==
    [][\A k \in 1..MaxStarts :
        (/\ startPc[k] = "idle"
         /\ startPc'[k] # "idle"
         /\ \E k2 \in 1..MaxStarts : startRet[k2] = "nil")
        => (startRet'[k] = "err" /\ binds' = binds /\ state' = state)]_vars

\* C8: a Start whose Listen failed has returned the error and launched no
\* goroutine, and the state is Unstarted while no Listen has bound; a
\* goroutine exists only for a Start whose Listen bound, and that Start has
\* returned nil whether or not the goroutine has begun or ended Serve.
C8_BindBeforeServe ==
    /\ \A k \in 1..MaxStarts :
        /\ startRet[k] = "err" => (servePc[k] = "none" /\ startPc[k] = "done")
        /\ servePc[k] # "none" => startRet[k] = "nil"
        /\ startRet[k] = "nil" => servePc[k] # "none"
    /\ Cardinality({k \in 1..MaxStarts : servePc[k] # "none"}) <= binds
    /\ binds = 0 => state = "Unstarted"
    /\ (binds > 0 /\ \A j \in 0..MaxShutdowns : sdCalls[j] = 0
          /\ \A k \in 1..MaxStarts : servePc[k] \in {"none", "ready"})
         => state = "Listening"

\* One Start has returned the Listen error with no goroutine, the other has
\* returned nil while its goroutine has not yet called Serve.
C8_Witness ==
    /\ startRet[1] = "err"
    /\ servePc[1] = "none"
    /\ startRet[2] = "nil"
    /\ servePc[2] = "ready"
    /\ binds = 1
    /\ state = "Listening"

\* C10: no step moves the lifecycle state backward, and no goroutine begins
\* Serve once Shutdown has been called.
C10_ForwardOnly ==
    [][/\ Rank(state') >= Rank(state)
       /\ \A k \in 1..MaxStarts :
            (servePc[k] = "ready" /\ servePc'[k] = "serving")
            => \A j \in 0..MaxShutdowns : sdCalls[j] = 0]_vars

=============================================================================
